---- MODULE Spec2Model ----
(***************************************************************************)
(* Model of the supabase_function resource and the supabase_function_body  *)
(* data source of terraform-provider-supabase.                             *)
(*                                                                         *)
(* The Terraform state of the one managed function, the data source's     *)
(* state, the local file system under source_dir and the HTTP requests the *)
(* handlers issue are the state; each CRUD handler is one action.  The     *)
(* replies of the remote API are inputs of the handlers.  The two demo     *)
(* scripts of e2e-test are modelled as a run of one script, command by     *)
(* command.                                                                *)
(***************************************************************************)
EXTENDS Integers, Sequences, FiniteSets, TLC

VARIABLES
    state,    \* stored state of the supabase_function resource, or NoState
    dsState,  \* stored state of the supabase_function_body data source, or NoState
    fs,       \* the local file system: source_dir -> directory tree
    sep,      \* os.PathSeparator of the platform the provider runs on
    reqs,     \* the HTTP requests issued by the last handler invocation
    last,     \* the last handler invocation: op, config, reply, diagnostics
    demo      \* the run of a demo script: environment, position, effects

vars == <<state, dsState, fs, sep, reqs, last, demo>>

-----------------------------------------------------------------------------
(* Bounds of the model *)

MaxVersion == 2
MaxTs == 1
MaxEntries == 3
MaxDepth == 2
MaxSlugLen == 2

(* HTTP status codes the handlers test for *)
StatusOK == 200
StatusCreated == 201
StatusNotFound == 404
StatusServerError == 500

-----------------------------------------------------------------------------
(* Attribute values of the plugin framework: types.String, types.Bool,    *)
(* types.Int64 are null, unknown or a known value.                         *)

NullValue == [k |-> "null"]
UnknownValue == [k |-> "unknown"]
Known(x) == [k |-> "known", v |-> x]
IsNull(a) == a.k = "null"
IsUnknown(a) == a.k = "unknown"
IsKnown(a) == a.k = "known"

(* Go pointers in the API's response structs: nil or a value *)
NilPtr == [nil |-> TRUE]
Ptr(x) == [nil |-> FALSE, v |-> x]

NoState == [present |-> FALSE]

-----------------------------------------------------------------------------
(* Input domains *)

ProjectRefs == {"projA"}
Slugs == {"fn-a", "fn-b"}
FunctionNames == {"hello", "other"}
Ids == {"id1", "id2"}
Statuses == {"ACTIVE"}
Versions == 1..MaxVersion
Timestamps == 1..MaxTs
EntrypointPaths == {<<"index.ts">>}
ImportMapPaths == {<<"import_map.json">>}
SourceDirs == {"src-a", "src-b"}
Separators == {"/", "\\"}

(* The inputs are varied one attribute at a time around a base value: the
   handlers treat the attributes independently of each other *)
DiffCount(r, base) == Cardinality({f \in DOMAIN base : r[f] # base[f]})
Around(base, domain) == {r \in domain : DiffCount(r, base) <= 1}

(* The configuration block of a supabase_function resource *)
ConfigDomain ==
    [project_ref     : ProjectRefs,
     slug            : Slugs,
     entrypoint_path : EntrypointPaths,
     source_dir      : SourceDirs,
     name            : {NullValue} \cup {Known(n) : n \in {"hello"}},
     verify_jwt      : {NullValue, Known(TRUE), Known(FALSE)},
     import_map_path : {NullValue} \cup {Known(p) : p \in ImportMapPaths}]

BaseConfig ==
    [project_ref |-> "projA", slug |-> "fn-a", entrypoint_path |-> <<"index.ts">>,
     source_dir |-> "src-a", name |-> NullValue, verify_jwt |-> NullValue,
     import_map_path |-> NullValue]

Configs == Around(BaseConfig, ConfigDomain)

-----------------------------------------------------------------------------
(* FunctionResourceModel, and what the framework hands to the handlers *)

Model(pr, sl, ep, sd, nm, vj, im, id, st, ver, ca, ua) ==
    [project_ref |-> pr, slug |-> sl, entrypoint_path |-> ep, source_dir |-> sd,
     name |-> nm, verify_jwt |-> vj, import_map_path |-> im,
     id |-> id, status |-> st, version |-> ver, created_at |-> ca, updated_at |-> ua]

Stored(data) == [present |-> TRUE, data |-> data]

(* stringplanmodifier.UseStateForUnknown: an unconfigured computed attribute
   takes the prior state's value when there is one *)
UseStateForUnknown(prior, attr) ==
    IF prior.present /\ ~IsNull(prior.data[attr]) THEN prior.data[attr] ELSE UnknownValue

(* faulty variant: the attribute has no default *)
VerifyJwtDefault_None(cfgValue) == cfgValue

(* booldefault.StaticBool(true) *)
VerifyJwtDefault(cfgValue) == IF IsNull(cfgValue) THEN Known(TRUE) ELSE cfgValue

(* The plan the framework computes from the configuration, the prior state and
   the schema: required and optional inputs as configured, verify_jwt with its
   default, name and id from the prior state when unknown, the other computed
   attributes unknown *)
PlanFor(cfg, prior) ==
    Model(Known(cfg.project_ref), Known(cfg.slug), Known(cfg.entrypoint_path),
          Known(cfg.source_dir),
          IF IsNull(cfg.name) THEN UseStateForUnknown(prior, "name") ELSE cfg.name,
          VerifyJwtDefault(cfg.verify_jwt),
          cfg.import_map_path,
          UseStateForUnknown(prior, "id"),
          UnknownValue, UnknownValue, UnknownValue, UnknownValue)

(* Terraform applies an in-place update only when the plan differs from the
   prior state in an input attribute *)
HasChanges(cfg, prior) ==
    LET plan == PlanFor(cfg, prior)
    IN \E attr \in {"entrypoint_path", "source_dir", "name", "verify_jwt", "import_map_path"} :
          plan[attr] # prior.data[attr]

(* faulty variant: slug without the plan modifier *)
RequiresReplace_ProjectOnly(cfg, prior) ==
    Known(cfg.project_ref) # prior.data.project_ref

(* stringplanmodifier.RequiresReplace on project_ref and slug: a change of
   either is planned as delete + create, never as an in-place update *)
RequiresReplace(cfg, prior) ==
    \/ Known(cfg.project_ref) # prior.data.project_ref
    \/ Known(cfg.slug) # prior.data.slug

-----------------------------------------------------------------------------
(* The local file system.  A path is a sequence of names; a tree maps the   *)
(* paths below its root to entries.  filepath.Walk does not follow symbolic *)
(* links: it reports them (Lstat) as entries that are not directories.      *)

NameOrder == <<"index.ts", "lib">>
Names == {NameOrder[i] : i \in 1..Len(NameOrder)}

Contents == {<<>>, <<"x", "y">>}

EntryValues ==
    {[kind |-> "file", data |-> c] : c \in Contents}
        \cup {[kind |-> "symlink", data |-> <<"y">>],
              [kind |-> "dir", data |-> <<>>],
              [kind |-> "unreadable", data |-> <<>>]}

CandidatePaths == UNION {[1..d -> Names] : d \in 1..MaxDepth}

Parent(p) == SubSeq(p, 1, Len(p) - 1)

PathSets ==
    {D \in SUBSET CandidatePaths :
        /\ Cardinality(D) <= MaxEntries
        /\ \A p \in D : Len(p) > 1 => Parent(p) \in D}

EntriesOver(D) ==
    {e \in [D -> EntryValues] :
        \A p \in D : Len(p) > 1 => e[Parent(p)].kind = "dir"}

MissingTree == [root |-> "missing", data |-> <<>>, entries |-> <<>>]
FileTree(c) == [root |-> "file", data |-> c, entries |-> <<>>]
DirTree(e) == [root |-> "dir", data |-> <<>>, entries |-> e]

Trees ==
    {MissingTree} \cup {FileTree(c) : c \in Contents}
        \cup {DirTree(e) : e \in UNION {EntriesOver(D) : D \in PathSets}}

(* the layout of the acceptance test and the examples: index.ts, plus a
   nested module *)
SampleTree ==
    DirTree((<<"index.ts">> :> [kind |-> "file", data |-> <<"x", "y">>])
            @@ (<<"lib">> :> [kind |-> "dir", data |-> <<>>])
            @@ (<<"lib", "index.ts">> :> [kind |-> "file", data |-> <<>>]))

SampleFS == [d \in SourceDirs |-> IF d = "src-a" THEN SampleTree ELSE MissingTree]

-----------------------------------------------------------------------------
(* Path strings are sequences of tokens: names and separators *)

RECURSIVE Join(_, _)
Join(p, s) ==
    IF Len(p) = 0 THEN <<>>
    ELSE IF Len(p) = 1 THEN <<p[1]>>
    ELSE <<p[1], s>> \o Join(Tail(p), s)

(* the path filepath.Walk hands to its callback: root joined with the names *)
WalkPathOf(root, p, s) == IF Len(p) = 0 THEN <<root>> ELSE <<root, s>> \o Join(p, s)

(* filepath.Rel(sourceDir, path) for a path below sourceDir *)
Rel(root, path) ==
    IF path = <<root>> THEN <<".">> ELSE SubSeq(path, 3, Len(path))

(* filepath.ToSlash: every os.PathSeparator becomes a forward slash *)
ToSlash(path, s) ==
    [i \in 1..Len(path) |-> IF path[i] = s THEN "/" ELSE path[i]]

-----------------------------------------------------------------------------
(* The multipart builder of deployFunction *)

FormFile(filename, content) == [name |-> "file", filename |-> filename, content |-> content]
FormField(fieldname, value) == [name |-> fieldname, value |-> value]

WalkOk(parts) == [err |-> FALSE, parts |-> parts]
WalkErr == [err |-> TRUE, parts |-> <<>>]

(* faulty variant: the relative path is used without filepath.ToSlash *)
WalkFn_NoToSlash(root, path, e, s) ==
    IF e.kind = "dir" THEN WalkOk(<<>>)
    ELSE IF e.kind = "unreadable" THEN WalkErr
    ELSE WalkOk(<<FormFile(Rel(root, path), e.data)>>)

(* the callback handed to filepath.Walk, for the entry e at path (a token
   sequence): a directory adds nothing, anything else is opened and copied
   into a part named "file" whose filename is the slash-separated path
   relative to sourceDir *)
WalkFn(root, path, e, s) ==
    IF e.kind = "dir" THEN WalkOk(<<>>)
    ELSE IF e.kind = "unreadable" THEN WalkErr
    ELSE WalkOk(<<FormFile(ToSlash(Rel(root, path), s), e.data)>>)

(* filepath.Walk below a directory: the names in lexical order, each entry
   handed to the callback, directories descended into, the first error ends
   the walk *)
RECURSIVE WalkNames(_, _, _, _, _)
WalkNames(root, tree, p, i, s) ==
    IF i > Len(NameOrder) THEN WalkOk(<<>>)
    ELSE LET c == Append(p, NameOrder[i]) IN
         IF c \notin DOMAIN tree.entries THEN WalkNames(root, tree, p, i + 1, s)
         ELSE LET e == tree.entries[c]
                  here == WalkFn(root, WalkPathOf(root, c, s), e, s)
                  below == IF e.kind = "dir" THEN WalkNames(root, tree, c, 1, s)
                           ELSE WalkOk(<<>>)
                  rest == WalkNames(root, tree, p, i + 1, s)
              IN IF here.err \/ below.err \/ rest.err THEN WalkErr
                 ELSE WalkOk(here.parts \o below.parts \o rest.parts)

(* filepath.Walk(sourceDir, fn) *)
Walk(root, tree, s) ==
    IF tree.root = "missing" THEN WalkErr
    ELSE IF tree.root = "file"
         THEN WalkFn(root, <<root>>, [kind |-> "file", data |-> tree.data], s)
    ELSE WalkNames(root, tree, <<>>, 1, s)

(* types.String.ValueString of a known value *)
ValueString(a) == a.v

(* faulty variant: verify_jwt is sent only when true, as omitempty on a plain
   bool would do *)
BuildMetadata_OmitsFalse(data, s) ==
    [entrypoint_path |-> ToSlash(ValueString(data.entrypoint_path), s),
     import_map_path |-> IF ~IsNull(data.import_map_path) /\ ~IsUnknown(data.import_map_path)
                         THEN Ptr(ToSlash(ValueString(data.import_map_path), s))
                         ELSE NilPtr,
     name            |-> IF ~IsNull(data.name) /\ ~IsUnknown(data.name)
                         THEN Ptr(ValueString(data.name)) ELSE NilPtr,
     static_patterns |-> NilPtr,
     verify_jwt      |-> IF IsKnown(data.verify_jwt) /\ data.verify_jwt.v
                         THEN Ptr(TRUE) ELSE NilPtr]

(* FunctionDeployMetadata as built from the plan *)
BuildMetadata(data, s) ==
    [entrypoint_path |-> ToSlash(ValueString(data.entrypoint_path), s),
     import_map_path |-> IF ~IsNull(data.import_map_path) /\ ~IsUnknown(data.import_map_path)
                         THEN Ptr(ToSlash(ValueString(data.import_map_path), s))
                         ELSE NilPtr,
     name            |-> IF ~IsNull(data.name) /\ ~IsUnknown(data.name)
                         THEN Ptr(ValueString(data.name)) ELSE NilPtr,
     static_patterns |-> NilPtr,
     verify_jwt      |-> IF ~IsNull(data.verify_jwt) /\ ~IsUnknown(data.verify_jwt)
                         THEN Ptr(data.verify_jwt.v) ELSE NilPtr]

(* json.Encoder.Encode of the metadata: entrypoint_path always, the
   omitempty pointer fields only when set *)
EncodeJSON(md) ==
    LET keys == {"entrypoint_path"}
                  \cup {k \in {"import_map_path", "name", "static_patterns", "verify_jwt"} :
                            ~md[k].nil}
    IN [k \in keys |-> IF k = "entrypoint_path" THEN md[k] ELSE md[k].v]

MultipartBody(fields, files) == [fields |-> fields, files |-> files]
EmptyBody == MultipartBody(<<>>, <<>>)

(* the request body of a deploy: the metadata field, then the file parts *)
BuildBody(data, parts, s) ==
    MultipartBody(<<FormField("metadata", EncodeJSON(BuildMetadata(data, s)))>>, parts)

-----------------------------------------------------------------------------
(* Requests and replies of the generated API client *)

Request(method, endpoint, projectRef, slug, body) ==
    [method |-> method, endpoint |-> endpoint, project_ref |-> projectRef,
     slug |-> slug, body |-> body]

TransportError == [kind |-> "transport_error", status |-> 0, json |-> NilPtr, raw |-> <<>>]
Http(status, json, raw) == [kind |-> "http", status |-> status, json |-> json, raw |-> raw]
NoReply == [kind |-> "none", status |-> 0, json |-> NilPtr, raw |-> <<>>]

OptTimestamps == {NilPtr} \cup {Ptr(t) : t \in Timestamps}
OptBools == {NilPtr, Ptr(TRUE), Ptr(FALSE)}

(* api.DeployFunctionResponse *)
DeployBodyDomain ==
    [id : Ids, slug : Slugs, name : FunctionNames, status : Statuses,
     version : Versions, created_at : OptTimestamps, updated_at : OptTimestamps,
     verify_jwt : OptBools]

BaseDeployBody ==
    [id |-> "id1", slug |-> "fn-a", name |-> "hello", status |-> "ACTIVE",
     version |-> 1, created_at |-> Ptr(1), updated_at |-> Ptr(1), verify_jwt |-> NilPtr]

DeployBodies == Around(BaseDeployBody, DeployBodyDomain)

(* api.FunctionSlugResponse *)
GetBodyDomain ==
    [id : Ids, slug : Slugs, name : FunctionNames, status : Statuses,
     version : Versions, created_at : Timestamps, updated_at : Timestamps,
     verify_jwt : OptBools]

BaseGetBody ==
    [id |-> "id1", slug |-> "fn-a", name |-> "hello", status |-> "ACTIVE",
     version |-> 1, created_at |-> 1, updated_at |-> 1, verify_jwt |-> NilPtr]

GetBodies == Around(BaseGetBody, GetBodyDomain)

DeployReplies ==
    {TransportError}
        \cup {Http(st, NilPtr, <<>>) : st \in {StatusCreated, StatusNotFound, StatusServerError}}
        \cup {Http(StatusCreated, Ptr(b), <<>>) : b \in DeployBodies}

GetReplies ==
    {TransportError}
        \cup {Http(st, NilPtr, <<>>) : st \in {StatusOK, StatusNotFound, StatusServerError}}
        \cup {Http(StatusOK, Ptr(b), <<>>) : b \in GetBodies}

DeleteReplies ==
    {TransportError}
        \cup {Http(st, NilPtr, <<>>) : st \in {StatusOK, StatusNotFound, StatusServerError}}

(* httpResp.JSON201 / httpResp.JSON200: the parsed body, set by the client
   only for that status *)
JSON201(reply) == IF reply.status = StatusCreated THEN reply.json ELSE NilPtr
JSON200(reply) == IF reply.status = StatusOK THEN reply.json ELSE NilPtr

(* diagnostics: the error messages a handler added *)
NoDiags == <<>>
ErrorDiag(msg) == <<msg>>
HasError(diags) == Len(diags) > 0

Result(diags, data, requests) == [diags |-> diags, data |-> data, reqs |-> requests]

-----------------------------------------------------------------------------
(* deployFunction, readFunction, deleteFunction *)

(* faulty variant: the slug is left as planned instead of taken from the response *)
MapDeployResponse_KeepsPlannedSlug(data, result) ==
    [data EXCEPT
        !.id = Known(result.id),
        !.name = Known(result.name),
        !.status = Known(result.status),
        !.version = Known(result.version),
        !.created_at = IF ~result.created_at.nil THEN Known(result.created_at.v) ELSE @,
        !.updated_at = IF ~result.updated_at.nil THEN Known(result.updated_at.v) ELSE @]

(* faulty variant: verify_jwt is copied from the response, as readFunction does *)
MapDeployResponse_TakesVerifyJwt(data, result) ==
    [data EXCEPT
        !.id = Known(result.id),
        !.slug = Known(result.slug),
        !.name = Known(result.name),
        !.status = Known(result.status),
        !.version = Known(result.version),
        !.created_at = IF ~result.created_at.nil THEN Known(result.created_at.v) ELSE @,
        !.updated_at = IF ~result.updated_at.nil THEN Known(result.updated_at.v) ELSE @,
        !.verify_jwt = IF ~result.verify_jwt.nil THEN Known(result.verify_jwt.v) ELSE @]

(* "Map response to data model": the five fields always, the timestamps only
   when the response carries them; every other attribute stays as planned *)
MapDeployResponse(data, result) ==
    [data EXCEPT
        !.id = Known(result.id),
        !.slug = Known(result.slug),
        !.name = Known(result.name),
        !.status = Known(result.status),
        !.version = Known(result.version),
        !.created_at = IF ~result.created_at.nil THEN Known(result.created_at.v) ELSE @,
        !.updated_at = IF ~result.updated_at.nil THEN Known(result.updated_at.v) ELSE @]

(* faulty variant: an update endpoint instead of the deploy endpoint *)
DeployRequest_Patch(data, parts, s) ==
    Request("PATCH", "functions/{slug}", ValueString(data.project_ref),
            ValueString(data.slug), BuildBody(data, parts, s))

(* the deploy request: POST .../functions/deploy?slug=<slug> *)
DeployRequest(data, parts, s) ==
    Request("POST", "functions/deploy", ValueString(data.project_ref),
            ValueString(data.slug), BuildBody(data, parts, s))

(* faulty variant: a deploy that failed in transport is sent a second time *)
deployFunction_RetriesOnce(data, reply, tree, s) ==
    LET w == Walk(ValueString(data.source_dir), tree, s)
        req == DeployRequest(data, w.parts, s)
    IN IF w.err
       THEN Result(ErrorDiag("Unable to read source directory"), data, <<>>)
       ELSE IF reply.kind = "transport_error"
       THEN Result(ErrorDiag("Unable to deploy function, got error"), data, <<req, req>>)
       ELSE IF JSON201(reply).nil
       THEN Result(ErrorDiag("Unable to deploy function, got status"), data, <<req>>)
       ELSE Result(NoDiags, MapDeployResponse(data, JSON201(reply).v), <<req>>)

deployFunction(data, reply, tree, s) ==
    LET w == Walk(ValueString(data.source_dir), tree, s)
        req == DeployRequest(data, w.parts, s)
    IN IF w.err
       THEN Result(ErrorDiag("Unable to read source directory"), data, <<>>)
       ELSE IF reply.kind = "transport_error"
       THEN Result(ErrorDiag("Unable to deploy function, got error"), data, <<req>>)
       ELSE IF JSON201(reply).nil
       THEN Result(ErrorDiag("Unable to deploy function, got status"), data, <<req>>)
       ELSE Result(NoDiags, MapDeployResponse(data, JSON201(reply).v), <<req>>)

(* faulty variant: verify_jwt is cleared when the response leaves it out *)
MapGetResponse_ClearsVerifyJwt(data, result) ==
    [data EXCEPT
        !.id = Known(result.id),
        !.slug = Known(result.slug),
        !.name = Known(result.name),
        !.status = Known(result.status),
        !.version = Known(result.version),
        !.created_at = Known(result.created_at),
        !.updated_at = Known(result.updated_at),
        !.verify_jwt = IF ~result.verify_jwt.nil THEN Known(result.verify_jwt.v)
                       ELSE NullValue]

(* the mapping of a 200 reply in readFunction *)
MapGetResponse(data, result) ==
    [data EXCEPT
        !.id = Known(result.id),
        !.slug = Known(result.slug),
        !.name = Known(result.name),
        !.status = Known(result.status),
        !.version = Known(result.version),
        !.created_at = Known(result.created_at),
        !.updated_at = Known(result.updated_at),
        !.verify_jwt = IF ~result.verify_jwt.nil THEN Known(result.verify_jwt.v) ELSE @]

GetRequest(data) ==
    Request("GET", "functions/{slug}", ValueString(data.project_ref),
            ValueString(data.slug), EmptyBody)

(* faulty variant: no special case for 404 *)
readFunction_NotFoundIsError(data, reply) ==
    LET req == GetRequest(data)
    IN IF reply.kind = "transport_error"
       THEN Result(ErrorDiag("Unable to read function, got error"), data, <<req>>)
       ELSE IF JSON200(reply).nil
       THEN Result(ErrorDiag("Unable to read function, got status"), data, <<req>>)
       ELSE Result(NoDiags, MapGetResponse(data, JSON200(reply).v), <<req>>)

(* faulty variant: a 404 clears what the API reported earlier *)
readFunction_NotFoundForgets(data, reply) ==
    LET req == GetRequest(data)
    IN IF reply.kind = "transport_error"
       THEN Result(ErrorDiag("Unable to read function, got error"), data, <<req>>)
       ELSE IF reply.status = StatusNotFound
       THEN Result(NoDiags,
                   [data EXCEPT !.id = NullValue, !.status = NullValue, !.version = NullValue],
                   <<req>>)
       ELSE IF JSON200(reply).nil
       THEN Result(ErrorDiag("Unable to read function, got status"), data, <<req>>)
       ELSE Result(NoDiags, MapGetResponse(data, JSON200(reply).v), <<req>>)

readFunction(data, reply) ==
    LET req == GetRequest(data)
    IN IF reply.kind = "transport_error"
       THEN Result(ErrorDiag("Unable to read function, got error"), data, <<req>>)
       ELSE IF reply.status = StatusNotFound
       THEN Result(NoDiags, data, <<req>>)
       ELSE IF JSON200(reply).nil
       THEN Result(ErrorDiag("Unable to read function, got status"), data, <<req>>)
       ELSE Result(NoDiags, MapGetResponse(data, JSON200(reply).v), <<req>>)

(* faulty variant: the function is addressed by its id *)
DeleteRequest_ById(data) ==
    Request("DELETE", "functions/{slug}", ValueString(data.project_ref),
            ValueString(data.id), EmptyBody)

DeleteRequest(data) ==
    Request("DELETE", "functions/{slug}", ValueString(data.project_ref),
            ValueString(data.slug), EmptyBody)

(* faulty variant: no special case for 404 *)
deleteFunction_NotFoundIsError(data, reply) ==
    LET req == DeleteRequest(data)
    IN IF reply.kind = "transport_error"
       THEN Result(ErrorDiag("Unable to delete function, got error"), data, <<req>>)
       ELSE IF reply.status # StatusOK
       THEN Result(ErrorDiag("Unable to delete function, got status"), data, <<req>>)
       ELSE Result(NoDiags, data, <<req>>)

deleteFunction(data, reply) ==
    LET req == DeleteRequest(data)
    IN IF reply.kind = "transport_error"
       THEN Result(ErrorDiag("Unable to delete function, got error"), data, <<req>>)
       ELSE IF reply.status = StatusNotFound
       THEN Result(NoDiags, data, <<req>>)
       ELSE IF reply.status # StatusOK
       THEN Result(ErrorDiag("Unable to delete function, got status"), data, <<req>>)
       ELSE Result(NoDiags, data, <<req>>)

-----------------------------------------------------------------------------
(* The handlers of FunctionResource.  Each reads the plan or the prior      *)
(* state, calls its helper, and writes the state only when no error         *)
(* diagnostic was added.                                                    *)

NoConfig == [k |-> "none"]

Invocation(op, cfg, reply, r) ==
    [op |-> op, cfg |-> cfg,
     reply |-> IF Len(r.reqs) = 0 THEN NoReply ELSE reply,
     diags |-> r.diags]

(* resp.State after Create/Update/Read: set to data unless an error returned
   first *)
StateAfterSet(prior, r) == IF HasError(r.diags) THEN prior ELSE Stored(r.data)

(* faulty variant: the resource is removed whatever Delete reported *)
StateAfterDelete_IgnoresDiags(prior, r) == NoState

(* resp.State after Delete: the framework removes the resource when Delete
   returns without an error diagnostic *)
StateAfterDelete(prior, r) == IF HasError(r.diags) THEN prior ELSE NoState

(* FunctionResource.Create, for configurations and deploy replies drawn from
   the given sets *)
CreateFrom(cfgs, replies) ==
    /\ ~state.present
    /\ \E cfg \in cfgs, reply \in replies :
          LET r == deployFunction(PlanFor(cfg, state), reply, fs[cfg.source_dir], sep)
          IN /\ state' = StateAfterSet(state, r)
             /\ reqs' = r.reqs
             /\ last' = Invocation("Create", cfg, reply, r)
    /\ UNCHANGED <<dsState, fs, sep, demo>>

Create == CreateFrom(Configs, DeployReplies)

(* FunctionResource.Read, for replies drawn from the given set *)
ReadFrom(replies) ==
    /\ state.present
    /\ \E reply \in replies :
          LET r == readFunction(state.data, reply)
          IN /\ state' = StateAfterSet(state, r)
             /\ reqs' = r.reqs
             /\ last' = Invocation("Read", NoConfig, reply, r)
    /\ UNCHANGED <<dsState, fs, sep, demo>>

Read == ReadFrom(GetReplies)

(* FunctionResource.Update, for configurations and deploy replies drawn from
   the given sets: Terraform calls it for an in-place change only *)
UpdateFrom(cfgs, replies) ==
    /\ state.present
    /\ \E cfg \in cfgs, reply \in replies :
          /\ ~RequiresReplace(cfg, state)
          /\ HasChanges(cfg, state)
          /\ LET r == deployFunction(PlanFor(cfg, state), reply, fs[cfg.source_dir], sep)
             IN /\ state' = StateAfterSet(state, r)
                /\ reqs' = r.reqs
                /\ last' = Invocation("Update", cfg, reply, r)
    /\ UNCHANGED <<dsState, fs, sep, demo>>

Update == UpdateFrom(Configs, DeployReplies)

(* FunctionResource.Delete, for replies drawn from the given set *)
DeleteFrom(replies) ==
    /\ state.present
    /\ \E reply \in replies :
          LET r == deleteFunction(state.data, reply)
          IN /\ state' = StateAfterDelete(state, r)
             /\ reqs' = r.reqs
             /\ last' = Invocation("Delete", NoConfig, reply, r)
    /\ UNCHANGED <<dsState, fs, sep, demo>>

Delete == DeleteFrom(DeleteReplies)

-----------------------------------------------------------------------------
(* The validator of slug.  A slug is a sequence of characters; the alphabet *)
(* holds one character of each range the expression names and some of none. *)

SlugChars == {"a", "Z", "7", "_", "-", ".", "é", "\n"}

SlugTexts == UNION {[1..n -> SlugChars] : n \in 0..MaxSlugLen}

InRange(c, range) ==
    CASE range = "A-Z" -> c = "Z"
      [] range = "a-z" -> c = "a"
      [] range = "0-9" -> c = "7"
      [] OTHER -> c = range

(* faulty variant: the expression without its closing anchor *)
SlugRegexMatches_Unanchored(text) ==
    /\ Len(text) >= 1
    /\ \E r \in {"A-Z", "a-z"} : InRange(text[1], r)

(* regexp.MustCompile(`^[A-Za-z][A-Za-z0-9_-]*$`).MatchString(text): one
   character of the first class at the start of the text, then characters of
   the second class up to the end of the text *)
SlugRegexMatches(text) ==
    /\ Len(text) >= 1
    /\ \E r \in {"A-Z", "a-z"} : InRange(text[1], r)
    /\ \A i \in 2..Len(text) :
          \E r \in {"A-Z", "a-z", "0-9", "_", "-"} : InRange(text[i], r)

(* stringvalidator.RegexMatches on the configured slug *)
ValidateConfig(cfg) ==
    IF SlugRegexMatches(cfg.slug) THEN NoDiags
    ELSE ErrorDiag("Invalid Attribute Value Match")

SlugConfigs == {[BaseConfig EXCEPT !.slug = t] : t \in SlugTexts}

SlugReplies ==
    {TransportError, Http(StatusCreated, Ptr([BaseDeployBody EXCEPT !.slug = <<"a">>]), <<>>)}

(* a configuration that fails validation never reaches a handler: Terraform
   reports the diagnostic and calls nothing *)
ValidateRejects(cfgs) ==
    /\ \E cfg \in cfgs :
          /\ HasError(ValidateConfig(cfg))
          /\ last' = [op |-> "Validate", cfg |-> cfg, reply |-> NoReply,
                      diags |-> ValidateConfig(cfg)]
    /\ reqs' = <<>>
    /\ UNCHANGED <<state, dsState, fs, sep, demo>>

(* Create is called with the configurations that passed validation *)
CreateValidated(cfgs, replies) ==
    CreateFrom({cfg \in cfgs : ~HasError(ValidateConfig(cfg))}, replies)

-----------------------------------------------------------------------------
(* FunctionBodyDataSource *)

DSConfigs == [project_ref : ProjectRefs, slug : Slugs]

RawBodies == {<<>>, <<"x">>, <<"x", "y">>}

BodyReplies ==
    {TransportError}
        \cup {Http(st, NilPtr, raw) :
                st \in {StatusOK, StatusNotFound, StatusServerError}, raw \in RawBodies}

DSModel(pr, sl, body) == [project_ref |-> pr, slug |-> sl, body |-> body]

(* req.Config.Get: the configured attributes, the computed body null *)
DSConfigData(cfg) == DSModel(Known(cfg.project_ref), Known(cfg.slug), NullValue)

(* string(httpResp.Body): the bytes of the reply, unchanged *)
StringOfBytes(raw) == [i \in 1..Len(raw) |-> raw[i]]

BodyRequest(data) ==
    Request("GET", "functions/{slug}/body", ValueString(data.project_ref),
            ValueString(data.slug), EmptyBody)

(* faulty variant: the body is never copied into the model *)
readFunctionBody_DropsBody(data, reply) ==
    LET req == BodyRequest(data)
    IN IF reply.kind = "transport_error"
       THEN Result(ErrorDiag("Unable to read function body, got error"), data, <<req>>)
       ELSE IF reply.status # StatusOK
       THEN Result(ErrorDiag("Unable to read function body, got status"), data, <<req>>)
       ELSE Result(NoDiags, data, <<req>>)

(* faulty variant: 404 handled as in readFunction, without a diagnostic *)
readFunctionBody_NotFoundIsSilent(data, reply) ==
    LET req == BodyRequest(data)
    IN IF reply.kind = "transport_error"
       THEN Result(ErrorDiag("Unable to read function body, got error"), data, <<req>>)
       ELSE IF reply.status = StatusNotFound
       THEN Result(NoDiags, data, <<req>>)
       ELSE IF reply.status # StatusOK
       THEN Result(ErrorDiag("Unable to read function body, got status"), data, <<req>>)
       ELSE Result(NoDiags, [data EXCEPT !.body = Known(StringOfBytes(reply.raw))], <<req>>)

(* the body of FunctionBodyDataSource.Read after req.Config.Get *)
readFunctionBody(data, reply) ==
    LET req == BodyRequest(data)
    IN IF reply.kind = "transport_error"
       THEN Result(ErrorDiag("Unable to read function body, got error"), data, <<req>>)
       ELSE IF reply.status # StatusOK
       THEN Result(ErrorDiag("Unable to read function body, got status"), data, <<req>>)
       ELSE Result(NoDiags, [data EXCEPT !.body = Known(StringOfBytes(reply.raw))], <<req>>)

(* FunctionBodyDataSource.Read, for configurations and replies drawn from
   the given sets *)
DataSourceReadFrom(cfgs, replies) ==
    /\ \E cfg \in cfgs, reply \in replies :
          LET r == readFunctionBody(DSConfigData(cfg), reply)
          IN /\ dsState' = StateAfterSet(dsState, r)
             /\ reqs' = r.reqs
             /\ last' = Invocation("DataSourceRead", cfg, reply, r)
    /\ UNCHANGED <<state, fs, sep, demo>>

DataSourceRead == DataSourceReadFrom(DSConfigs, BodyReplies)

-----------------------------------------------------------------------------
(* The demo scripts demo.sh and demo-auto.sh.  Both run under set -e: the   *)
(* first command that fails ends the script, and the EXIT trap, once set,  *)
(* runs cleanup.                                                           *)

Scripts == {"demo.sh", "demo-auto.sh"}

(* an environment variable as the caller leaves it: unset, set to the empty
   string, or set to a value of the caller's *)
Unset == [set |-> FALSE, value |-> ""]
EnvValue(v) == [set |-> TRUE, value |-> v]
Environments ==
    [SUPABASE_TOKEN : {Unset, EnvValue(""), EnvValue("caller-token")},
     PROJECT_REF    : {Unset, EnvValue(""), EnvValue("caller-ref")}]

(* the values written into the scripts *)
BuiltinToken == "builtin-token"
BuiltinProjectRef == "builtin-ref"

(* ${VAR:-default}: the default when VAR is unset or empty *)
DefaultIfUnsetOrEmpty(v, default) == IF v.set /\ v.value # "" THEN v.value ELSE default

(* the commands of each script that can end it, in order: the terraform
   commands, and in demo.sh the read of wait_for_user *)
Commands(script) ==
    IF script = "demo-auto.sh"
    THEN <<"plan", "apply", "refresh", "show", "apply", "output",
           "plan", "apply", "show", "plan -destroy", "destroy">>
    ELSE <<"wait", "wait", "plan", "wait", "apply", "wait", "refresh", "show", "wait",
           "wait", "plan", "wait", "apply", "output", "wait",
           "wait", "wait", "plan", "wait", "apply", "show", "wait",
           "plan -destroy", "wait", "destroy">>

IsTerraform(cmd) == cmd # "wait"

(* the terraform commands that reach the API: apply, refresh and destroy,
   and a plan once there is a function in the state to refresh *)
CallsApi(cmd, deployed) ==
    \/ cmd \in {"apply", "refresh", "destroy"}
    \/ cmd \in {"plan", "plan -destroy"} /\ deployed

NoDemo ==
    [script |-> "none", env |-> [SUPABASE_TOKEN |-> Unset, PROJECT_REF |-> Unset],
     stage |-> "idle", token |-> "", ref |-> "", trap |-> FALSE, dir |-> FALSE,
     pc |-> 0, deployed |-> FALSE, ranTerraform |-> FALSE, calledWith |-> "none",
     status |-> 0, errorPrinted |-> FALSE]

(* a script started in an environment *)
DemoStart(script, env) == [NoDemo EXCEPT !.script = script, !.env = env, !.stage = "config"]

(* the end of the script: the EXIT trap, when set, runs cleanup, which
   removes the demo directory and nothing else *)
Exit(d, status) ==
    [d EXCEPT !.stage = "exited", !.status = status,
              !.dir = IF d.trap THEN FALSE ELSE @]

(* SUPABASE_TOKEN="${SUPABASE_TOKEN:-...}" and PROJECT_REF="${PROJECT_REF:-...}" *)
DemoConfigure ==
    /\ demo.stage = "config"
    /\ demo' = [demo EXCEPT
                   !.token = DefaultIfUnsetOrEmpty(demo.env.SUPABASE_TOKEN, BuiltinToken),
                   !.ref = DefaultIfUnsetOrEmpty(demo.env.PROJECT_REF, BuiltinProjectRef),
                   !.stage = IF demo.script = "demo-auto.sh" THEN "validate" ELSE "setup"]
    /\ UNCHANGED <<state, dsState, fs, sep, reqs, last>>

(* "Validate configuration" of demo-auto.sh: the two -z tests *)
DemoValidate ==
    /\ demo.stage = "validate"
    /\ demo' = IF demo.token = "" \/ demo.ref = ""
               THEN [Exit(demo, 1) EXCEPT !.errorPrinted = TRUE]
               ELSE [demo EXCEPT !.stage = "setup"]
    /\ UNCHANGED <<state, dsState, fs, sep, reqs, last>>

(* trap cleanup EXIT; mkdir -p "${DEMO_DIR}"; cd "${DEMO_DIR}" *)
DemoSetup ==
    /\ demo.stage = "setup"
    /\ demo' = [demo EXCEPT !.trap = TRUE, !.dir = TRUE, !.stage = "run", !.pc = 1]
    /\ UNCHANGED <<state, dsState, fs, sep, reqs, last>>

(* the next command succeeds: apply leaves the function deployed, destroy
   removes it *)
DemoCommandSucceeds ==
    /\ demo.stage = "run"
    /\ demo.pc <= Len(Commands(demo.script))
    /\ LET cmd == Commands(demo.script)[demo.pc]
       IN demo' = [demo EXCEPT
                      !.pc = @ + 1,
                      !.deployed = IF cmd = "apply" THEN TRUE
                                   ELSE IF cmd = "destroy" THEN FALSE ELSE @,
                      !.ranTerraform = @ \/ IsTerraform(cmd),
                      !.calledWith = IF CallsApi(cmd, demo.deployed) THEN demo.token ELSE @]
    /\ UNCHANGED <<state, dsState, fs, sep, reqs, last>>

(* the next command fails: under set -e the script ends there *)
DemoCommandFails ==
    /\ demo.stage = "run"
    /\ demo.pc <= Len(Commands(demo.script))
    /\ LET cmd == Commands(demo.script)[demo.pc]
       IN demo' = [Exit(demo, 1) EXCEPT
                      !.ranTerraform = @ \/ IsTerraform(cmd),
                      !.calledWith = IF CallsApi(cmd, demo.deployed) THEN demo.token ELSE @]
    /\ UNCHANGED <<state, dsState, fs, sep, reqs, last>>

(* the end of the script after the summary *)
DemoFinish ==
    /\ demo.stage = "run"
    /\ demo.pc > Len(Commands(demo.script))
    /\ demo' = Exit(demo, 0)
    /\ UNCHANGED <<state, dsState, fs, sep, reqs, last>>

-----------------------------------------------------------------------------
(* Specifications *)

NoInvocation == [op |-> "none", cfg |-> NoConfig, reply |-> NoReply, diags |-> NoDiags]

Init ==
    /\ state = NoState
    /\ dsState = NoState
    /\ fs = SampleFS
    /\ sep \in Separators
    /\ reqs = <<>>
    /\ last = NoInvocation
    /\ demo = NoDemo

Next == Create \/ Read \/ Update \/ Delete

(* the life cycle of one supabase_function resource *)
Spec == Init /\ [][Next]_vars

NextDS == DataSourceRead

(* the supabase_function_body data source, read any number of times *)
SpecDS == Init /\ [][NextDS]_vars

InitWalk ==
    /\ state = NoState
    /\ dsState = NoState
    /\ fs \in {[d \in SourceDirs |-> IF d = "src-a" THEN t ELSE MissingTree] : t \in Trees}
    /\ sep \in Separators
    /\ reqs = <<>>
    /\ last = NoInvocation
    /\ demo = NoDemo

WalkConfigs == {BaseConfig, [BaseConfig EXCEPT !.source_dir = "src-b"]}
WalkReplies == {Http(StatusCreated, Ptr(BaseDeployBody), <<>>), TransportError}

NextWalk == CreateFrom(WalkConfigs, WalkReplies)

(* one deploy over every directory tree within the bounds *)
SpecWalk == InitWalk /\ [][NextWalk]_vars

(* configurations whose paths hold separators of either platform, a second
   project, and each optional attribute set and unset *)
MetaConfigDomain ==
    [project_ref     : {"projA", "projB"},
     slug            : Slugs,
     entrypoint_path : {<<"index.ts">>, <<"src", "/", "index.ts">>, <<"src", "\\", "index.ts">>},
     source_dir      : {"src-a"},
     name            : {NullValue, Known("hello"), Known("other")},
     verify_jwt      : {NullValue, Known(TRUE), Known(FALSE)},
     import_map_path : {NullValue, Known(<<"import_map.json">>),
                        Known(<<"cfg", "\\", "import_map.json">>)}]

MetaConfigs == Around(BaseConfig, MetaConfigDomain)

MetaReplies ==
    {TransportError, Http(StatusCreated, Ptr(BaseDeployBody), <<>>),
     Http(StatusCreated, Ptr([BaseDeployBody EXCEPT !.slug = "fn-b"]), <<>>)}

MetaDeleteReplies == {Http(StatusOK, NilPtr, <<>>), Http(StatusServerError, NilPtr, <<>>)}

NextMeta ==
    \/ CreateFrom(MetaConfigs, MetaReplies)
    \/ UpdateFrom(MetaConfigs, MetaReplies)
    \/ DeleteFrom(MetaDeleteReplies)

(* creation, in-place update and deletion of configurations over MetaConfigs *)
SpecMeta == Init /\ [][NextMeta]_vars

(* one reply of each kind per call: a success, a transport failure, and the
   error statuses *)
AllDeployReplies ==
    {TransportError, Http(StatusServerError, NilPtr, <<>>),
     Http(StatusCreated, Ptr(BaseDeployBody), <<>>)}
AllGetReplies ==
    {TransportError, Http(StatusNotFound, NilPtr, <<>>), Http(StatusServerError, NilPtr, <<>>),
     Http(StatusOK, Ptr(BaseGetBody), <<>>)}
AllBodyReplies ==
    {TransportError, Http(StatusOK, NilPtr, <<"x">>), Http(StatusNotFound, NilPtr, <<>>),
     Http(StatusServerError, NilPtr, <<>>)}
AllDSConfigs == {[project_ref |-> "projA", slug |-> "fn-a"]}

NextAll ==
    \/ CreateFrom(Configs, AllDeployReplies)
    \/ ReadFrom(AllGetReplies)
    \/ UpdateFrom(Configs, AllDeployReplies)
    \/ DeleteFrom(DeleteReplies)
    \/ DataSourceReadFrom(AllDSConfigs, AllBodyReplies)

(* the resource and the data source side by side, as in one Terraform
   configuration that declares both *)
SpecAll == Init /\ [][NextAll]_vars

NextSlug ==
    \/ ValidateRejects(SlugConfigs)
    \/ CreateValidated(SlugConfigs, SlugReplies)
    \/ DeleteFrom({Http(StatusOK, NilPtr, <<>>)})

(* validation and creation over every slug within the bound *)
SpecSlug == Init /\ [][NextSlug]_vars

InitDemo ==
    /\ state = NoState
    /\ dsState = NoState
    /\ fs = SampleFS
    /\ sep \in Separators
    /\ reqs = <<>>
    /\ last = NoInvocation
    /\ demo \in {DemoStart(script, env) : script \in Scripts, env \in Environments}

NextDemo ==
    \/ DemoConfigure
    \/ DemoValidate
    \/ DemoSetup
    \/ DemoCommandSucceeds
    \/ DemoCommandFails
    \/ DemoFinish

(* one run of either demo script in every environment *)
SpecDemo == InitDemo /\ [][NextDemo]_vars

-----------------------------------------------------------------------------
(* Properties *)

IsHttp(reply, status) == reply.kind = "http" /\ reply.status = status

(* the last call was a deploy answered 201 with a function body *)
Deployed(op) == last.op = op /\ IsHttp(last.reply, StatusCreated) /\ ~last.reply.json.nil

(* a source tree filepath.Walk gets through: the root exists and every entry
   below it can be read *)
Readable(tree) ==
    /\ tree.root # "missing"
    /\ \A p \in DOMAIN tree.entries : tree.entries[p].kind # "unreadable"

IsDeployOf(req, cfg) ==
    /\ req.method = "POST"
    /\ req.endpoint = "functions/deploy"
    /\ req.project_ref = cfg.project_ref
    /\ req.slug = cfg.slug

(* C1: after a Create whose deploy call returned 201 with a body, the state
   holds the response's id, slug, name, status and version, and the
   response's created_at and updated_at when it carries them *)
C1_CreateMapsResponse ==
    Deployed("Create") =>
        LET b == last.reply.json.v
        IN /\ state.present
           /\ state.data.id = Known(b.id)
           /\ state.data.slug = Known(b.slug)
           /\ state.data.name = Known(b.name)
           /\ state.data.status = Known(b.status)
           /\ state.data.version = Known(b.version)
           /\ ~b.created_at.nil => state.data.created_at = Known(b.created_at.v)
           /\ ~b.updated_at.nil => state.data.updated_at = Known(b.updated_at.v)

C1_Witness ==
    /\ Deployed("Create")
    /\ last.reply.json.v.slug # last.cfg.slug
    /\ state.data.slug = Known(last.reply.json.v.slug)
    /\ state.data.created_at = Known(1)

(* C2 as stated: every Update issues exactly one POST to the deploy endpoint
   with the planned slug and nothing else, and after a 201 the state's
   version is the response's *)
C2_EveryUpdateDeploysOnce ==
    last.op = "Update" =>
        /\ Len(reqs) = 1
        /\ IsDeployOf(reqs[1], last.cfg)
        /\ Deployed("Update") =>
              state.present /\ state.data.version = Known(last.reply.json.v.version)

(* C2 amended: an Update whose source_dir can be walked issues exactly one
   POST to the deploy endpoint with the planned slug, an Update whose
   source_dir cannot be walked issues no request; no Update issues any other
   request, and after a 201 the state's version is the response's *)
C2_UpdateRedeploys ==
    last.op = "Update" =>
        /\ Len(reqs) = (IF Readable(fs[last.cfg.source_dir]) THEN 1 ELSE 0)
        /\ \A i \in 1..Len(reqs) : IsDeployOf(reqs[i], last.cfg)
        /\ Deployed("Update") =>
              state.present /\ state.data.version = Known(last.reply.json.v.version)

C2_Witness ==
    /\ Deployed("Update")
    /\ Len(reqs) = 1
    /\ state.data.version = Known(2)

(* C3: after a successful Create or Update, verify_jwt in the state is the
   planned verify_jwt whatever the response carries, and project_ref,
   entrypoint_path, source_dir and import_map_path are as planned *)
C3_InputsAsPlanned ==
    (Deployed("Create") \/ Deployed("Update")) =>
        /\ state.present
        /\ state.data.verify_jwt = VerifyJwtDefault(last.cfg.verify_jwt)
        /\ state.data.project_ref = Known(last.cfg.project_ref)
        /\ state.data.entrypoint_path = Known(last.cfg.entrypoint_path)
        /\ state.data.source_dir = Known(last.cfg.source_dir)
        /\ state.data.import_map_path = last.cfg.import_map_path

C3_Witness ==
    /\ Deployed("Update")
    /\ last.reply.json.v.verify_jwt = Ptr(FALSE)
    /\ state.data.verify_jwt = Known(TRUE)

(* C4: an in-place Update leaves the id in the state as it was *)
C4_IdStableAcrossUpdate ==
    [][(last'.op = "Update" /\ state.present /\ state'.present)
          => state'.data.id = state.data.id]_vars

(* C5: a Read whose GET returned 404 adds no error diagnostic *)
C5_ReadNotFoundNoError ==
    (last.op = "Read" /\ IsHttp(last.reply, StatusNotFound)) => ~HasError(last.diags)

C5_Witness ==
    /\ last.op = "Read"
    /\ IsHttp(last.reply, StatusNotFound)
    /\ Len(reqs) = 1

(* C6: a Delete whose DELETE returned 404 adds no error diagnostic and the
   resource is removed from the state *)
C6_DeleteNotFoundSucceeds ==
    (last.op = "Delete" /\ IsHttp(last.reply, StatusNotFound)) =>
        ~HasError(last.diags) /\ ~state.present

C6_Witness ==
    /\ last.op = "Delete"
    /\ IsHttp(last.reply, StatusNotFound)
    /\ ~state.present

ResourceOps == {"Create", "Read", "Update", "Delete"}

(* the HTTP call failed in transport or returned an unexpected status, 404
   on Read and Delete excepted *)
FailedCall(op, reply) ==
    \/ reply.kind = "transport_error"
    \/ /\ reply.kind = "http"
       /\ IF op \in {"Create", "Update"} THEN reply.status # StatusCreated
          ELSE reply.status \notin {StatusOK, StatusNotFound}

(* C7: a Create, Read, Update or Delete whose HTTP call failed adds an error
   diagnostic, and an operation that added an error diagnostic leaves the
   stored state as it was *)
C7_ErrorsLeaveState ==
    [][last'.op \in ResourceOps =>
          /\ FailedCall(last'.op, last'.reply) => HasError(last'.diags)
          /\ HasError(last'.diags) => state' = state]_vars

C7_Witness ==
    /\ last.op = "Delete"
    /\ IsHttp(last.reply, StatusServerError)
    /\ HasError(last.diags)
    /\ state.present

(* C8: after a data source Read whose GET returned 200, body is the reply's
   raw bytes and project_ref and slug are the configured values *)
C8_DataSourceBody ==
    (last.op = "DataSourceRead" /\ IsHttp(last.reply, StatusOK)) =>
        /\ dsState.present
        /\ dsState.data.body = Known(last.reply.raw)
        /\ dsState.data.project_ref = Known(last.cfg.project_ref)
        /\ dsState.data.slug = Known(last.cfg.slug)

C8_Witness ==
    /\ last.op = "DataSourceRead"
    /\ IsHttp(last.reply, StatusOK)
    /\ dsState.data.body = Known(<<"x", "y">>)
    /\ dsState.data.slug = Known("fn-b")

(* C9 as stated: a data source Read whose GET returned 404 adds no error
   diagnostic *)
C9_DataSourceNotFoundNoError ==
    (last.op = "DataSourceRead" /\ IsHttp(last.reply, StatusNotFound))
        => ~HasError(last.diags)

(* C9 amended: a data source Read whose GET returned 404 adds an error
   diagnostic, as for every other status but 200, and writes no state *)
C9_DataSourceNotFoundIsError ==
    [][(last'.op = "DataSourceRead" /\ IsHttp(last'.reply, StatusNotFound))
          => HasError(last'.diags) /\ dsState' = dsState]_vars

C9_Witness ==
    /\ last.op = "DataSourceRead"
    /\ IsHttp(last.reply, StatusNotFound)
    /\ HasError(last.diags)
    /\ dsState.present

(* the file parts a tree calls for: one per entry of the given kinds, named
   by its slash-separated path below the root, holding the entry's bytes *)
ExpectedParts(tree, kinds) ==
    IF tree.root = "file"
    THEN IF "file" \in kinds THEN {[filename |-> <<".">>, content |-> tree.data]} ELSE {}
    ELSE {[filename |-> Join(p, "/"), content |-> tree.entries[p].data] :
              p \in {q \in DOMAIN tree.entries : tree.entries[q].kind \in kinds}}

SentParts(body) ==
    {[filename |-> body.files[i].filename, content |-> body.files[i].content] :
        i \in 1..Len(body.files)}

BodyCarries(body, tree, kinds) ==
    /\ Cardinality({i \in 1..Len(body.fields) : body.fields[i].name = "metadata"}) = 1
    /\ \A i \in 1..Len(body.files) : body.files[i].name = "file"
    /\ SentParts(body) = ExpectedParts(tree, kinds)
    /\ Len(body.files) = Cardinality(ExpectedParts(tree, kinds))

(* C10 as stated: the deploy body holds one metadata field and exactly one
   file part per regular file under source_dir, and no other file part *)
C10_PartPerRegularFile ==
    (last.op = "Create" /\ Len(reqs) = 1) =>
        BodyCarries(reqs[1].body, fs[last.cfg.source_dir], {"file"})

(* C10 amended: when source_dir can be walked, the deploy body holds one
   metadata field and exactly one file part per entry under source_dir that
   is not a directory, a symbolic link included (sent with the bytes read
   through it), named by the entry's slash-separated relative path; a
   directory produces no part and no entry is sent twice *)
C10_PartPerNonDirectory ==
    (last.op = "Create" /\ Readable(fs[last.cfg.source_dir])) =>
        /\ Len(reqs) = 1
        /\ BodyCarries(reqs[1].body, fs[last.cfg.source_dir], {"file", "symlink"})

C10_Witness ==
    /\ last.op = "Create"
    /\ Len(reqs) = 1
    /\ sep = "\\"
    /\ \E p \in DOMAIN fs["src-a"].entries :
          Len(p) = 2 /\ fs["src-a"].entries[p].kind = "file"
    /\ \E p \in DOMAIN fs["src-a"].entries : fs["src-a"].entries[p].kind = "symlink"
    /\ Len(reqs[1].body.files) = 2

(* the metadata JSON of a deploy request *)
MetadataOf(req) == req.body.fields[1].value

(* the metadata carries the key exactly when the planned attribute is
   neither null nor unknown, and then with the value given *)
CarriesIff(md, key, attr, value) ==
    /\ (key \in DOMAIN md) <=> IsKnown(attr)
    /\ key \in DOMAIN md => md[key] = value

(* the path with every separator of the platform replaced by a forward slash *)
Slashed(path, s) == [i \in 1..Len(path) |-> IF path[i] = s THEN "/" ELSE path[i]]

(* C11 as stated: the metadata of every deploy request carries
   entrypoint_path equal to the planned one, carries name, verify_jwt and
   import_map_path exactly when planned known and with the planned value,
   and the request is addressed to the planned project_ref and slug *)
C11_MetadataAsPlanned ==
    [][(last'.op \in {"Create", "Update"} /\ Len(reqs') = 1) =>
          LET plan == PlanFor(last'.cfg, state)
              md == MetadataOf(reqs'[1])
          IN /\ md.entrypoint_path = plan.entrypoint_path.v
             /\ CarriesIff(md, "name", plan.name, plan.name.v)
             /\ CarriesIff(md, "verify_jwt", plan.verify_jwt, plan.verify_jwt.v)
             /\ CarriesIff(md, "import_map_path", plan.import_map_path,
                           plan.import_map_path.v)
             /\ reqs'[1].project_ref = plan.project_ref.v
             /\ reqs'[1].slug = plan.slug.v]_vars

(* C11 amended: as stated, except that entrypoint_path and import_map_path
   are sent with every path separator of the platform replaced by a forward
   slash *)
C11_MetadataSlashed ==
    [][(last'.op \in {"Create", "Update"} /\ Len(reqs') = 1) =>
          LET plan == PlanFor(last'.cfg, state)
              md == MetadataOf(reqs'[1])
          IN /\ md.entrypoint_path = Slashed(plan.entrypoint_path.v, sep)
             /\ CarriesIff(md, "name", plan.name, plan.name.v)
             /\ CarriesIff(md, "verify_jwt", plan.verify_jwt, plan.verify_jwt.v)
             /\ CarriesIff(md, "import_map_path", plan.import_map_path,
                           Slashed(plan.import_map_path.v, sep))
             /\ reqs'[1].project_ref = plan.project_ref.v
             /\ reqs'[1].slug = plan.slug.v]_vars

C11_Witness ==
    /\ last.op = "Create"
    /\ Len(reqs) = 1
    /\ sep = "\\"
    /\ last.cfg.entrypoint_path = <<"src", "\\", "index.ts">>
    /\ MetadataOf(reqs[1]).entrypoint_path = <<"src", "/", "index.ts">>
    /\ MetadataOf(reqs[1]).verify_jwt = TRUE
    /\ "name" \notin DOMAIN MetadataOf(reqs[1])
    /\ "import_map_path" \notin DOMAIN MetadataOf(reqs[1])

(* C12: every invocation of Create, Read, Update, Delete and of the data
   source's Read issues at most one HTTP request, whatever the outcome of
   that request, and the data source's Read issues nothing but a GET *)
C12_AtMostOneRequest ==
    /\ last.op \in ResourceOps \cup {"DataSourceRead"} => Len(reqs) <= 1
    /\ last.op = "DataSourceRead" => \A i \in 1..Len(reqs) : reqs[i].method = "GET"

C12_Witness ==
    /\ last.op = "DataSourceRead"
    /\ IsHttp(last.reply, StatusServerError)
    /\ Len(reqs) = 1
    /\ reqs[1].method = "GET"
    /\ state.present
    /\ dsState.present

AsciiLetters == {"a", "Z"}
AsciiDigits == {"7"}

(* non-empty, an ASCII letter first, then ASCII letters, digits, underscores
   and hyphens only *)
WellFormedSlug(text) ==
    /\ text # <<>>
    /\ Head(text) \in AsciiLetters
    /\ {text[i] : i \in 2..Len(text)} \subseteq AsciiLetters \cup AsciiDigits \cup {"_", "-"}

(* C13: the validator accepts exactly the well-formed slugs; a configuration
   with any other slug is rejected with an error diagnostic and no HTTP
   request, and Create only ever runs with a well-formed slug *)
C13_SlugValidation ==
    /\ \A t \in SlugTexts : ~HasError(ValidateConfig([BaseConfig EXCEPT !.slug = t]))
                                <=> WellFormedSlug(t)
    /\ last.op = "Validate" =>
          ~WellFormedSlug(last.cfg.slug) /\ HasError(last.diags) /\ reqs = <<>>
    /\ last.op = "Create" => WellFormedSlug(last.cfg.slug)

C13_Witness ==
    /\ last.op = "Validate"
    /\ last.cfg.slug = <<"a", "\n">>
    /\ HasError(last.diags)
    /\ reqs = <<>>
    /\ state.present

(* C14: when the configuration omits verify_jwt, the deploy request of
   Create carries verify_jwt = true in its metadata, and the state after a
   successful Create has verify_jwt = true whatever the response carries *)
C14_VerifyJwtDefaultsTrue ==
    (last.op = "Create" /\ IsNull(last.cfg.verify_jwt)) =>
        /\ \A i \in 1..Len(reqs) :
              /\ "verify_jwt" \in DOMAIN MetadataOf(reqs[i])
              /\ MetadataOf(reqs[i]).verify_jwt = TRUE
        /\ Deployed("Create") => state.present /\ state.data.verify_jwt = Known(TRUE)

C14_Witness ==
    /\ Deployed("Create")
    /\ IsNull(last.cfg.verify_jwt)
    /\ last.reply.json.v.verify_jwt = Ptr(FALSE)
    /\ MetadataOf(reqs[1]).verify_jwt = TRUE
    /\ state.data.verify_jwt = Known(TRUE)

(* C15: when the configuration omits name, the name in the state after a
   successful Create is the configured slug *)
C15_NameDefaultsToSlug ==
    (Deployed("Create") /\ IsNull(last.cfg.name)) =>
        state.present /\ state.data.name = Known(last.cfg.slug)

AddressedTo(req, data) ==
    /\ req.project_ref = ValueString(data.project_ref)
    /\ req.slug = ValueString(data.slug)

(* C16: Update is only invoked with the project_ref and slug already in the
   state and its request is addressed to them; a configuration with another
   project_ref or slug reaches the API only through Delete, addressed to the
   old pair, and then Create, which runs only once the resource is gone from
   the state *)
C16_ReplaceNotUpdate ==
    [][/\ last'.op = "Update" =>
             /\ state.present
             /\ Known(last'.cfg.project_ref) = state.data.project_ref
             /\ Known(last'.cfg.slug) = state.data.slug
             /\ \A i \in 1..Len(reqs') : AddressedTo(reqs'[i], state.data)
       /\ last'.op = "Delete" =>
             /\ state.present
             /\ \A i \in 1..Len(reqs') : AddressedTo(reqs'[i], state.data)
       /\ last'.op = "Create" => ~state.present]_vars

C16_Witness ==
    /\ last.op = "Update"
    /\ last.cfg.slug = "fn-b"
    /\ Len(reqs) = 1
    /\ reqs[1].slug = "fn-b"
    /\ state.present
    /\ state.data.slug = Known("fn-b")

IsDeploy(req) == req.method = "POST" /\ req.endpoint = "functions/deploy"
IsGet(req) == req.method = "GET" /\ req.endpoint = "functions/{slug}"
IsDelete(req) == req.method = "DELETE" /\ req.endpoint = "functions/{slug}"

(* C17: every Delete issues exactly one request, a DELETE addressed to the
   project_ref and slug in the state, and the resource is removed from the
   state when it returns 200.  Create and Update issue nothing but deploys
   and Read nothing but GETs, and once the resource is gone from the state
   nothing but a Create can run: the requests of a life cycle start with a
   deploy, continue with GETs and deploys, and end with the DELETE *)
C17_DestroyIsLast ==
    [][/\ last'.op = "Delete" =>
             /\ state.present
             /\ Len(reqs') = 1
             /\ IsDelete(reqs'[1])
             /\ AddressedTo(reqs'[1], state.data)
             /\ IsHttp(last'.reply, StatusOK) => ~state'.present
       /\ last'.op \in {"Create", "Update"} => \A i \in 1..Len(reqs') : IsDeploy(reqs'[i])
       /\ last'.op = "Read" => \A i \in 1..Len(reqs') : IsGet(reqs'[i])
       /\ ~state.present => last'.op = "Create"]_vars

C17_Witness ==
    /\ last.op = "Delete"
    /\ IsHttp(last.reply, StatusOK)
    /\ Len(reqs) = 1
    /\ IsDelete(reqs[1])
    /\ reqs[1].slug = "fn-b"
    /\ ~state.present

(* C18: whenever demo.sh or demo-auto.sh has exited, the function it
   deployed no longer exists remotely and the demo directory is removed *)
C18_CleanupOnEveryExit ==
    demo.stage = "exited" => ~demo.deployed /\ ~demo.dir

(* C19: demo-auto.sh started with SUPABASE_TOKEN or PROJECT_REF unset runs
   no terraform command, calls the API with no token, and exits with status
   1 after printing an error *)
C19_CredentialsRequired ==
    (demo.script = "demo-auto.sh"
        /\ (~demo.env.SUPABASE_TOKEN.set \/ ~demo.env.PROJECT_REF.set)) =>
        /\ ~demo.ranTerraform
        /\ demo.calledWith = "none"
        /\ demo.stage \notin {"setup", "run"}
        /\ demo.stage = "exited" => demo.status = 1 /\ demo.errorPrinted

(* C20: a Read whose GET returned 404 writes the state back as it was: every
   attribute keeps its value and the resource stays in the state *)
C20_ReadNotFoundKeepsState ==
    [][(last'.op = "Read" /\ IsHttp(last'.reply, StatusNotFound))
          => state'.present /\ state' = state]_vars

C20_Witness ==
    /\ last.op = "Read"
    /\ IsHttp(last.reply, StatusNotFound)
    /\ ~HasError(last.diags)
    /\ state.present
    /\ state.data.id = Known("id2")
    /\ state.data.version = Known(1)

ComputedAttributes == {"id", "name", "status", "version", "created_at", "updated_at"}

(* C21: after a Create or Update whose deploy call returned 201 with a
   body, every computed attribute in the state has a known value *)
C21_ComputedKnownAfterDeploy ==
    (Deployed("Create") \/ Deployed("Update")) =>
        /\ state.present
        /\ \A attr \in ComputedAttributes : IsKnown(state.data[attr])

(* C22: a Read whose GET returned 200 with a body overwrites id, slug, name,
   status, version, created_at and updated_at from the response, overwrites
   verify_jwt only when the response carries it, leaves project_ref,
   entrypoint_path, source_dir and import_map_path as they were, and a
   second Read given the same reply leaves the state as the first left it *)
C22_ReadFrame ==
    [][(last'.op = "Read" /\ IsHttp(last'.reply, StatusOK) /\ ~last'.reply.json.nil) =>
          LET b == last'.reply.json.v
          IN /\ state.present /\ state'.present
             /\ state'.data.id = Known(b.id)
             /\ state'.data.slug = Known(b.slug)
             /\ state'.data.name = Known(b.name)
             /\ state'.data.status = Known(b.status)
             /\ state'.data.version = Known(b.version)
             /\ state'.data.created_at = Known(b.created_at)
             /\ state'.data.updated_at = Known(b.updated_at)
             /\ state'.data.verify_jwt =
                    (IF b.verify_jwt.nil THEN state.data.verify_jwt
                     ELSE Known(b.verify_jwt.v))
             /\ \A attr \in {"project_ref", "entrypoint_path", "source_dir",
                              "import_map_path"} :
                    state'.data[attr] = state.data[attr]
             /\ StateAfterSet(state', readFunction(state'.data, last'.reply)) = state']_vars

C22_Witness ==
    /\ last.op = "Read"
    /\ IsHttp(last.reply, StatusOK)
    /\ ~last.reply.json.nil
    /\ last.reply.json.v.verify_jwt.nil
    /\ last.reply.json.v.version = 2
    /\ state.present
    /\ state.data.verify_jwt = Known(FALSE)
    /\ state.data.version = Known(2)
    /\ IsKnown(state.data.import_map_path)

====
